---- MODULE Spec2Model ----
(***************************************************************************)
(* The website crawler of webscrapper.js (src/student.js, lines 765-1117): *)
(* scrapeWebsite, the frontier scheduler, and crawlSingle, the page        *)
(* crawler, with the helpers they call.                                    *)
(*                                                                         *)
(* Strings are sequences of one-character strings, so that substring       *)
(* tests, lower-casing, URL resolution and whitespace splitting are        *)
(* computed the way the code computes them.                                *)
(***************************************************************************)
EXTENDS Integers, Sequences, FiniteSets, TLC

\* ------------------------------------------------------------------ CONFIG
DEFAULT_MAX_PAGES == 10
DEFAULT_MAX_DEPTH == 2
DEFAULT_CONCURRENCY == 10
CHUNK_SIZE == 800

\* ------------------------------------------------------------------ bounds
\* Largest maxPages / maxDepth / concurrency option a caller passes.
MaxPagesOpt == 3
MaxDepthOpt == 2
MaxConcurrencyOpt == 3
\* The batch counter stops counting here.
MaxBatches == 14

\* An option the caller did not pass (options.x === undefined).
Absent == -1

\* F(x), with x evaluated once however often F reads it.
Apply(F(_), x) == CHOOSE v \in {F(y) : y \in {x}} : TRUE

\* ----------------------------------------------------------------- strings
Upper == <<"A","B","C","D","E","F","G","H","I","J","K","L","M",
           "N","O","P","Q","R","S","T","U","V","W","X","Y","Z">>
LowerOf == <<"a","b","c","d","e","f","g","h","i","j","k","l","m",
             "n","o","p","q","r","s","t","u","v","w","x","y","z">>

UpperSet == {Upper[i] : i \in 1..Len(Upper)}
LowerSet == {LowerOf[i] : i \in 1..Len(LowerOf)}
UpperToLower == [c \in UpperSet |-> LowerOf[CHOOSE i \in 1..Len(Upper) : Upper[i] = c]]

LowerChar(c) == IF c \in UpperSet THEN UpperToLower[c] ELSE c

\* A string left in the case it has.
keepCase(s) == s

\* String.prototype.toLowerCase
toLowerCase(s) == Apply(LAMBDA x : [i \in 1..Len(x) |-> LowerChar(x[i])], s)

\* String.prototype.includes
includes(s, sub) ==
    \E x \in {s} :
        \E i \in 1..(Len(x) - Len(sub) + 1) : SubSeq(x, i, i + Len(sub) - 1) = sub

\* String.prototype.startsWith / endsWith
startsWith(s, p) ==
    \E x \in {s} : Len(x) >= Len(p) /\ SubSeq(x, 1, Len(p)) = p
endsWith(s, p) ==
    \E x \in {s} : Len(x) >= Len(p) /\ SubSeq(x, Len(x) - Len(p) + 1, Len(x)) = p

\* The characters /\s/ matches.
IsSpace(c) == c \in {" ", "\n", "\t"}

\* String.prototype.trim
RECURSIVE trimStart(_)
trimStart(s) == IF s # <<>> /\ IsSpace(Head(s)) THEN trimStart(Tail(s)) ELSE s
RECURSIVE trimEnd(_)
trimEnd(s) ==
    IF s # <<>> /\ IsSpace(s[Len(s)]) THEN trimEnd(SubSeq(s, 1, Len(s) - 1)) ELSE s
trim(s) == Apply(trimEnd, Apply(trimStart, s))

\* s.split(/\s+/): the pieces between maximal whitespace runs; a leading or a
\* trailing run leaves an empty piece, as in JavaScript.
RECURSIVE SplitFrom(_, _, _)
SplitFrom(s, i, cur) ==
    IF i > Len(s) THEN <<cur>>
    ELSE IF IsSpace(s[i])
         THEN IF i > 1 /\ IsSpace(s[i - 1])
              THEN SplitFrom(s, i + 1, cur)
              ELSE <<cur>> \o SplitFrom(s, i + 1, <<>>)
         ELSE SplitFrom(s, i + 1, Append(cur, s[i]))
splitWs(s) == Apply(LAMBDA x : SplitFrom(x, 1, <<>>), s)

\* Array.prototype.filter(Boolean) on strings: drops the empty ones.
filterBoolean(xs) == SelectSeq(xs, LAMBDA x : x # <<>>)

\* Array.prototype.join
RECURSIVE JoinFrom(_, _, _)
JoinFrom(xs, i, sep) ==
    IF i > Len(xs) THEN <<>>
    ELSE IF i = Len(xs) THEN xs[i]
         ELSE xs[i] \o sep \o JoinFrom(xs, i + 1, sep)
join(xs, sep) == Apply(LAMBDA ys : JoinFrom(ys, 1, sep), xs)

Min(a, b) == IF a <= b THEN a ELSE b

\* ------------------------------------------------------------- arrays
\* The concatenation of the sequences of ss, in order.
RECURSIVE ConcatFrom(_, _)
ConcatFrom(ss, i) == IF i > Len(ss) THEN <<>> ELSE ss[i] \o ConcatFrom(ss, i + 1)
Concat(ss) == Apply(LAMBDA ys : ConcatFrom(ys, 1), ss)

\* What a loop over xs pushes, when the turn for x pushes the elements F(x).
FlatMap(F(_), xs) == Apply(LAMBDA ys : Concat([i \in 1..Len(ys) |-> F(ys[i])]), xs)

\* ------------------------------------------------------------------- URLs
\* new URL(...) for http URLs: scheme, host, path (path, query and fragment
\* are kept as one tail).  Invalid stands for the TypeError new URL throws.
Scheme == <<"h","t","t","p",":","/","/">>
Invalid == <<>>

\* The index of the first "/" of s at or after i, or Len(s) + 1.
RECURSIVE SlashFrom(_, _)
SlashFrom(s, i) ==
    IF i > Len(s) \/ s[i] = "/" THEN i ELSE SlashFrom(s, i + 1)

\* host and path of the text after "scheme://"
HostOf(rest) == Apply(LAMBDA r : SubSeq(r, 1, SlashFrom(r, 1) - 1), rest)
PathOf(rest) ==
    Apply(LAMBDA r : IF SlashFrom(r, 1) > Len(r) THEN <<"/">>
                     ELSE SubSeq(r, SlashFrom(r, 1), Len(r)), rest)

\* A space in the path is serialized as %20.
PercentEncode(path) ==
    Apply(LAMBDA x : IF \A i \in 1..Len(x) : x[i] # " " THEN x
                     ELSE Concat([i \in 1..Len(x) |->
                                    IF x[i] = " " THEN <<"%", "2", "0">> ELSE <<x[i]>>]),
          path)

\* new URL(s).toString() for an absolute s: the host is lower-cased, a space
\* in the host is rejected and an empty path becomes "/".
ParseRest(rest) ==
    IF HostOf(rest) = <<>> \/ includes(HostOf(rest), <<" ">>) THEN Invalid
    ELSE Scheme \o toLowerCase(HostOf(rest)) \o PercentEncode(PathOf(rest))
ParseAbsolute(s) ==
    Apply(LAMBDA x : IF ~startsWith(x, Scheme) THEN Invalid
                     ELSE Apply(ParseRest, SubSeq(x, Len(Scheme) + 1, Len(x))), s)

hostname(u) == Apply(LAMBDA x : HostOf(SubSeq(x, Len(Scheme) + 1, Len(x))), u)

\* The directory of a serialized URL: everything up to its last "/".
RECURSIVE DirUpTo(_, _)
DirUpTo(u, n) == IF u[n] = "/" THEN SubSeq(u, 1, n) ELSE DirUpTo(u, n - 1)
DirOf(u) == Apply(LAMBDA x : DirUpTo(x, Len(x)), u)

\* new URL(ref, base).toString(), given the parsed base b
ResolveOn(ref, b) ==
    IF startsWith(ref, Scheme) THEN ParseAbsolute(ref)
    ELSE IF b = Invalid THEN Invalid
    ELSE IF startsWith(ref, <<"/", "/">>)
         THEN ParseAbsolute(Scheme \o SubSeq(ref, 3, Len(ref)))
    ELSE IF startsWith(ref, <<"/">>)
         THEN Scheme \o hostname(b) \o PercentEncode(ref)
    ELSE IF ref = <<>> THEN b
    ELSE DirOf(b) \o PercentEncode(ref)

\* new URL(ref, base).toString()
Resolve(ref, base) ==
    Apply(LAMBDA r : Apply(LAMBDA b : ResolveOn(r, b), ParseAbsolute(base)), ref)

\* ------------------------------------------------------------------ UTILS
isInternal(base, link) ==
    \E baseUrl \in {ParseAbsolute(base)} :
        \E full \in {Resolve(link, base)} :
            IF baseUrl = Invalid \/ full = Invalid THEN FALSE
            ELSE hostname(baseUrl) = hostname(full)

\* undefined, a url that was not passed.
Undefined == <<"undefined">>

\* (url || ''): a missing url and the empty string are both falsy.
OrEmpty(url) == IF url = Undefined THEN <<>> ELSE url

isLoginPage(url) ==
    \E u \in {toLowerCase(OrEmpty(url))} :
       \/ includes(u, <<"l","o","g","i","n">>)
       \/ includes(u, <<"s","i","g","n","i","n">>)
       \/ includes(u, <<"a","u","t","h">>)
       \/ includes(u, <<"a","c","c","o","u","n","t">>)

isTracking(url) ==
    \E u \in {toLowerCase(OrEmpty(url))} :
       \/ includes(u, <<"u","t","m","_">>)
       \/ includes(u, <<"r","e","f","=">>)
       \/ includes(u, <<"t","r","a","c","k","i","n","g">>)
       \/ includes(u, <<"g","c","l","i","d">>)
       \/ includes(u, <<"f","b","c","l","i","d">>)

\* The loop of chunkText with words.slice(i, i + chunkSize + 1): every chunk
\* takes the first word of the next.
RECURSIVE ChunksOverlapping(_, _, _)
ChunksOverlapping(words, i, chunkSize) ==
    IF i > Len(words) THEN <<>>
    ELSE Apply(LAMBDA chunk : IF chunk # <<>> THEN <<chunk>> ELSE <<>>,
               trim(join(SubSeq(words, i, Min(Len(words), i + chunkSize)), <<" ">>)))
         \o ChunksOverlapping(words, i + chunkSize, chunkSize)

\* The loop of chunkText from word i on (i counted from 1).
RECURSIVE ChunksFrom(_, _, _)
ChunksFrom(words, i, chunkSize) ==
    IF i > Len(words) THEN <<>>
    ELSE Apply(LAMBDA chunk : IF chunk # <<>> THEN <<chunk>> ELSE <<>>,
               trim(join(SubSeq(words, i, Min(Len(words), i + chunkSize - 1)), <<" ">>)))
         \o ChunksFrom(words, i + chunkSize, chunkSize)

chunkText(text, chunkSize) ==
    Apply(LAMBDA words : ChunksFrom(words, 1, chunkSize), filterBoolean(splitWs(text)))

\* ------------------------------------------------------------ the web site
\* What the network serves.  A page is what cheerio parses out of its HTML:
\*   anchors  the a[href] elements in document order; noise = the element
\*            lies inside one of script, style, nav, header, footer,
\*            noscript, form, aside
\*   imgs     the img[src] elements, with src in place of href
\*   blocks   the h1/h2/h3 ("h") and p ("p") elements with their text
\*   quoted   the quoted string literals of the raw HTML text
S(a) == <<a>>
HostA == Scheme \o S("a")
UrlA0 == HostA
UrlA == HostA \o S("/")
UrlB == HostA \o <<"/", "b">>
UrlC == HostA \o <<"/", "c">>
UrlD == HostA \o <<"/", "d">>
UrlE == HostA \o <<"/", "e">>
UrlLogin == HostA \o <<"/", "L", "o", "g", "i", "n">>
UrlTrack == HostA \o <<"/", "c", "?", "r", "e", "f", "=", "1">>
UrlX == Scheme \o <<"x", "/">>
Api1 == <<"/", "a", "p", "i", "/", "r", "e", "f", "=", "1">>
Api2 == <<"/", "v", "/", "G", "e", "t", "2">>
PdfName == <<"r", ".", "P", "d", "f">>
UrlApi1 == HostA \o Api1
UrlApi2 == HostA \o Api2

PageUrls == {UrlA, UrlB, UrlC, UrlD, UrlE, UrlLogin, UrlTrack}
EndpointUrls == {UrlApi1, UrlApi2}

A(href) == [href |-> href, noise |-> FALSE]
N(href) == [href |-> href, noise |-> TRUE]
Blk(tag, text, noise) == [tag |-> tag, text |-> text, noise |-> noise]
Words6 == <<"p"," ","q"," ","r"," ","s"," ","t"," ","u">>
Words4 == <<"p"," ","q","\n","r"," ","s">>
NoPage == [anchors |-> <<>>, imgs |-> <<>>, blocks |-> <<>>, quoted |-> <<>>]

SiteIds == 1..4

\* Site 1: A links to B and C; B and C link back to A and to the external X.
\* Site 2: duplicate links, cycles, a chain A-B-C-D-E, excluded URLs.
\* Site 3: pages that advertise JSON endpoints.
\* Site 4: a fan-out wider than the page budget, a nav link, a bad href.
Page(siteId, url) ==
    CASE siteId = 1 /\ url = UrlA ->
            [NoPage EXCEPT !.anchors = <<A(<<"/","b">>), A(<<"/","c">>)>>,
                           !.blocks = <<Blk("h", <<"h","i">>, FALSE)>>]
      [] siteId = 1 /\ url \in {UrlB, UrlC} ->
            [NoPage EXCEPT !.anchors = <<A(<<"/">>), A(UrlX)>>]
      [] siteId = 2 /\ url = UrlA ->
            [NoPage EXCEPT !.anchors = <<A(<<"b">>), A(UrlB), A(<<"/","c">>),
                                         A(<<"/","L","o","g","i","n">>),
                                         A(<<"/","c","?","r","e","f","=","1">>)>>]
      [] siteId = 2 /\ url = UrlB ->
            [NoPage EXCEPT !.anchors = <<A(<<"/","c">>), A(<<"/">>), A(<<"/","b">>)>>]
      [] siteId = 2 /\ url = UrlC ->
            [NoPage EXCEPT !.anchors = <<A(<<"/","d">>), A(<<"/","b">>)>>]
      [] siteId = 2 /\ url = UrlD ->
            [NoPage EXCEPT !.anchors = <<A(<<"/","e">>)>>]
      [] siteId = 3 /\ url = UrlA ->
            [NoPage EXCEPT !.anchors = <<A(<<"/","b">>), A(<<"/","c">>)>>,
                           !.blocks = <<Blk("p", Words6, FALSE), Blk("h", <<"h">>, FALSE),
                                        Blk("p", Words4, FALSE), Blk("h", <<"n">>, TRUE)>>,
                           !.quoted = <<Api2, Api1, Api1>>]
      [] siteId = 3 /\ url = UrlB ->
            [NoPage EXCEPT !.quoted = <<Api1>>]
      [] siteId = 3 /\ url = UrlC ->
            [NoPage EXCEPT !.quoted = <<Api2, <<"/","v">> >>]
      [] siteId = 4 /\ url = UrlA ->
            [NoPage EXCEPT !.anchors = <<A(<<"/","b">>), A(<<"/","c">>), A(<<"/","d">>),
                                         N(<<"/","e">>), A(Scheme)>>]
      [] siteId = 4 /\ url = UrlB ->
            [NoPage EXCEPT !.anchors = <<A(<<"/","c">>), A(<<"/","e">>)>>]
      [] siteId = 4 /\ url = UrlD ->
            [NoPage EXCEPT !.anchors = <<A(UrlX \o PdfName), N(UrlX \o PdfName)>>,
                           !.imgs = <<A(<<"I",".","P","N","G">>), A(<<"i",".","t","x","t">>)>>]
      [] OTHER -> NoPage

\* The URLs a site serves a page for; any other page URL answers 404.
Served(siteId) ==
    CASE siteId = 1 -> {UrlA, UrlB, UrlC}
      [] siteId = 2 -> {UrlA, UrlB, UrlC, UrlD, UrlE, UrlLogin, UrlTrack}
      [] siteId = 3 -> {UrlA, UrlB, UrlC}
      [] siteId = 4 -> {UrlA, UrlB, UrlC, UrlD, UrlE}

\* What an endpoint answers, by kind:
\*   error      the request fails (network error, timeout, non-2xx)
\*   object     a JSON body axios decoded to an object
\*   null       the JSON body null, decoded
\*   textJson   a body axios could not decode, declared application/json
\*   textPlain  a body that is not JSON, declared text/plain
\*   textParses a string that JSON.parse decodes, declared text/plain
ResponseKinds == {"error", "object", "null", "textJson", "textPlain", "textParses"}

\* The text an endpoint serves carries the endpoint's own mark (its last
\* character), so that the text of one endpoint is told from another's.
MarkOf(apiUrl) == apiUrl[Len(apiUrl)]
OwnText(apiUrl) ==
    LET m == MarkOf(apiUrl) IN <<m, " ", m, " ", m, " ", m>>

JStr(s) == [t |-> "string", str |-> s, items |-> <<>>]
JArr(xs) == [t |-> "array", str |-> <<>>, items |-> xs]
JObj(xs) == [t |-> "object", str |-> <<>>, items |-> xs]
JNull == [t |-> "null", str |-> <<>>, items |-> <<>>]

\* resp.data, resp.headers['content-type'] contains application/json, and
\* what JSON.parse(resp.data) gives (JNull with parses = FALSE: it throws).
Response(kind, apiUrl) ==
    CASE kind = "object" ->
            [data |-> JObj(<<JStr(<<"k">>), JArr(<<JNull, JStr(OwnText(apiUrl))>>)>>),
             ctJson |-> TRUE, parses |-> FALSE, parsed |-> JNull]
      [] kind = "null" ->
            [data |-> JNull, ctJson |-> TRUE, parses |-> FALSE, parsed |-> JNull]
      [] kind = "textJson" ->
            [data |-> JStr(OwnText(apiUrl)), ctJson |-> TRUE, parses |-> FALSE,
             parsed |-> JNull]
      [] kind = "textPlain" ->
            [data |-> JStr(OwnText(apiUrl)), ctJson |-> FALSE, parses |-> FALSE,
             parsed |-> JNull]
      [] kind = "textParses" ->
            [data |-> JStr(<<"[", "]">>), ctJson |-> FALSE, parses |-> TRUE,
             parsed |-> JArr(<<JStr(OwnText(apiUrl))>>)]
      [] OTHER ->
            [data |-> JNull, ctJson |-> FALSE, parses |-> FALSE, parsed |-> JNull]

\* ------------------------------------------------------- Extract Media
\* full.split('/').pop() || fallback
lastSegment(full, fallback) ==
    Apply(LAMBDA tail : IF tail = <<>> THEN fallback ELSE tail,
          SubSeq(full, Len(DirOf(full)) + 1, Len(full)))

ImageExts == {<<".","j","p","g">>, <<".","j","p","e","g">>, <<".","p","n","g">>,
              <<".","g","i","f">>, <<".","w","e","b","p">>, <<".","s","v","g">>}

\* One turn of the a[href] loop: the pdf entry pushed, if any.
pdfOf(href, baseUrl) ==
    IF href # <<>> /\ endsWith(toLowerCase(href), <<".","p","d","f">>)
    THEN Apply(LAMBDA full :
                  IF full = Invalid THEN <<>>
                  ELSE <<[name |-> lastSegment(full, <<"f","i","l","e",".","p","d","f">>),
                          url |-> full]>>,
               Resolve(href, baseUrl))
    ELSE <<>>

\* One turn of the img[src] loop: src is the lower-cased attribute.
imageOf(src, baseUrl) ==
    IF src # <<>> /\ (\E ext \in ImageExts : endsWith(src, ext))
    THEN Apply(LAMBDA full :
                  IF full = Invalid THEN <<>>
                  ELSE <<[name |-> lastSegment(full, <<"i","m","a","g","e">>),
                          url |-> full]>>,
               Resolve(src, baseUrl))
    ELSE <<>>

extractMedia(doc, baseUrl) ==
    [pdfs |-> FlatMap(LAMBDA a : pdfOf(a.href, baseUrl), doc.anchors),
     images |-> FlatMap(LAMBDA a : Apply(LAMBDA src : imageOf(src, baseUrl),
                                         toLowerCase(a.href)), doc.imgs)]

\* ------------------------------------------- Extract Dynamic API URLs
Digits == {"0","1","2","3","4","5","6","7","8","9"}
PathChars == UpperSet \cup LowerSet \cup Digits \cup {"/", "_", "-"}
IsPathChar(c) == c \in PathChars

Markers == << <<"G","e","t">>, <<"F","e","t","c","h">>, <<"d","e","t","a","i","l">>,
              <<"o","v","e","r","v","i","e","w">> >>
CoursePrefix == <<"/","C","o","u","r","s","e","/">>

\* Whether the whole quoted literal lit matches pattern k of the table; every
\* pattern carries the i flag, so letters match in either case.
MatchesPattern(k, lit) ==
    \E l \in {toLowerCase(lit)} :
       IF k = 1
       THEN startsWith(l, <<"/","a","p","i","/">>) /\ Len(l) > 5
       ELSE IF k = 6
       THEN /\ startsWith(l, toLowerCase(CoursePrefix)) /\ Len(l) > Len(CoursePrefix)
            /\ \A j \in (Len(CoursePrefix) + 1)..Len(lit) : IsPathChar(lit[j])
       ELSE \E m \in {toLowerCase(Markers[k - 1])} :
               /\ startsWith(l, <<"/">>)
               /\ \A j \in 2..Len(lit) : IsPathChar(lit[j])
               /\ \E i \in 2..(Len(l) - Len(m)) : SubSeq(l, i, i + Len(m) - 1) = m

\* The matches of pattern k in text order, resolved; invalid ones dropped.
matchesOf(k, quoted, baseUrl) ==
    FlatMap(LAMBDA lit :
               IF MatchesPattern(k, lit)
               THEN Apply(LAMBDA full : IF full = Invalid THEN <<>> ELSE <<full>>,
                          Resolve(lit, baseUrl))
               ELSE <<>>,
            quoted)

\* Array.from(new Set(xs)): first occurrences, in insertion order.
RECURSIVE DedupeFrom(_, _, _)
DedupeFrom(xs, i, out) ==
    IF i > Len(xs) THEN out
    ELSE Apply(LAMBDA o : DedupeFrom(xs, i + 1, o),
               IF \E j \in 1..Len(out) : out[j] = xs[i] THEN out ELSE Append(out, xs[i]))
dedupe(xs) == Apply(LAMBDA ys : DedupeFrom(ys, 1, <<>>), xs)

extractDynamicApiUrls(quoted, baseUrl) ==
    dedupe(FlatMap(LAMBDA k : matchesOf(k, quoted, baseUrl), <<1, 2, 3, 4, 5, 6>>))

\* --------------------------------------------- Extract text from JSON
RECURSIVE extractTextFromJson(_)
extractTextFromJson(val) ==
    IF val.t = "null" THEN <<>>
    ELSE IF val.t \in {"array", "object"}
    THEN Concat([i \in 1..Len(val.items) |-> extractTextFromJson(val.items[i])])
    ELSE Apply(LAMBDA str : IF Len(splitWs(str)) > 3 THEN <<str>> ELSE <<>>,
               trim(val.str))

\* ------------------------------------------- Extract Clean HTML Text
\* $(tag).remove() for the noise tags: what is left of the document.
removeNoise(doc) ==
    [doc EXCEPT !.anchors = SelectSeq(doc.anchors, LAMBDA a : ~a.noise),
                !.imgs = SelectSeq(doc.imgs, LAMBDA a : ~a.noise),
                !.blocks = SelectSeq(doc.blocks, LAMBDA b : ~b.noise)]

\* .replace(/\s+/g, ' ').trim()
collapse(s) == trim(join(splitWs(s), <<" ">>))

\* The texts of the elements of one tag that are pushed to textParts.
textsOf(blocks, tag, minWords) ==
    FlatMap(LAMBDA b :
               IF b.tag # tag THEN <<>>
               ELSE Apply(LAMBDA txt :
                             IF txt # <<>> /\ Len(splitWs(txt)) > minWords
                             THEN <<txt>> ELSE <<>>,
                          collapse(b.text)),
            blocks)

\* Headings are pushed whenever they have text, paragraphs when they have
\* more than 5 words.
extractCleanHtmlText(doc) ==
    Apply(LAMBDA left : trim(join(textsOf(left, "h", 0) \o textsOf(left, "p", 5), <<"\n">>)),
          removeNoise(doc).blocks)

\* ------------------------------------------------------------------ state
VARIABLES
    siteId,     \* the site the network serves
    down,       \* the page URLs whose fetch fails (error, timeout, non-2xx)
    apiKind,    \* what each endpoint answers
    startUrl,   \* scrapeWebsite's first argument
    options,    \* scrapeWebsite's second argument
    visited,    \* the Set of admitted URLs
    results,    \* the array scrapeWebsite returns
    queue,      \* the pending {url, depth} entries
    tasks,      \* the crawlSingle calls of the current batch, in batch order
    pc,         \* scrapeWebsite: "loop" (the while test), "await" (Promise.all
                \* pending), "returned"
    fetchLog,   \* history: the {url, depth} of every page fetch started
    batches,    \* history: the number of batches dispatched, up to MaxBatches
    enqueued,   \* history: every {url, depth} entry ever put in the queue
    apiLog,     \* history: the {page, url} of every endpoint request issued
    call        \* a direct call of one of the helpers: its arguments and result

crawlVars == <<siteId, down, apiKind, startUrl, options, visited, results, queue,
               tasks, pc, fetchLog, batches, enqueued, apiLog>>
vars == <<crawlVars, call>>

\* No helper is called directly during a crawl.
NoCall == [fn |-> "none"]

\* options.x || DEFAULT: an absent option and 0 are both falsy.
OrDefault(v, dflt) == IF v = Absent \/ v = 0 THEN dflt ELSE v

\* The page budget with options.maxPages left unread.
maxPagesDefault == DEFAULT_MAX_PAGES

maxPages == OrDefault(options.maxPages, DEFAULT_MAX_PAGES)
maxDepth == OrDefault(options.maxDepth, DEFAULT_MAX_DEPTH)
concurrency == OrDefault(options.concurrency, DEFAULT_CONCURRENCY)

\* ------------------------------------------------- SINGLE PAGE SCRAPER
\* axios.get(url) of a page: whether it resolves, and the document
\* cheerio.load makes of the body.
FetchOk(url) ==
    \E u \in {ParseAbsolute(url)} : u # Invalid /\ u \in Served(siteId) \ down
Document(url) == Page(siteId, ParseAbsolute(url))

Null == [ok |-> FALSE,
         pageData |-> [url |-> <<>>, chunks |-> <<>>, pdfs |-> <<>>, images |-> <<>>],
         nextLinks |-> <<>>]

\* Admission without the page-budget test.
AdmittedNoBudget(item, vis) ==
    /\ ~(item.depth > maxDepth)
    /\ ~(isLoginPage(item.url) \/ isTracking(item.url))
    /\ ~(item.url \in vis)

\* Admission without the visited.has test.
AdmittedNoVisitedCheck(item, vis) ==
    /\ ~(item.depth > maxDepth)
    /\ ~(isLoginPage(item.url) \/ isTracking(item.url))
    /\ ~(Cardinality(vis) >= maxPages)

\* Admission without the isTracking test.
AdmittedNoTracking(item, vis) ==
    /\ ~(item.depth > maxDepth)
    /\ ~isLoginPage(item.url)
    /\ ~(item.url \in vis \/ Cardinality(vis) >= maxPages)

\* Admission without the depth test.
AdmittedNoDepth(item, vis) ==
    /\ ~(isLoginPage(item.url) \/ isTracking(item.url))
    /\ ~(item.url \in vis \/ Cardinality(vis) >= maxPages)

\* crawlSingle up to visited.add: whether the entry is admitted.
Admitted(item, vis) ==
    /\ ~(item.depth > maxDepth)
    /\ ~(isLoginPage(item.url) \/ isTracking(item.url))
    /\ ~(item.url \in vis \/ Cardinality(vis) >= maxPages)

\* A call that is waiting for its page, a call that has returned res, and a
\* call that returned null at its admission test.  admitted is history: the
\* call got past visited.add.
Fetching(item) ==
    [url |-> item.url, depth |-> item.depth, pc |-> "fetch", admitted |-> TRUE,
     apiIdx |-> 0, apiUrls |-> <<>>, apiTextParts |-> <<>>, res |-> Null]
Returned(t, res) == [t EXCEPT !.pc = "done", !.res = res]
Rejected(item) == [Fetching(item) EXCEPT !.pc = "done", !.admitted = FALSE]

\* One turn of the a[href] loop of the link enumeration: the entry pushed,
\* if any.
linkOf(href, url, depth, baseUrl) ==
    IF href = <<>> THEN <<>>
    ELSE Apply(LAMBDA nextUrl :
                  IF nextUrl # Invalid /\ isInternal(baseUrl, nextUrl)
                  THEN <<[url |-> nextUrl, depth |-> depth + 1]>> ELSE <<>>,
               Resolve(href, url))

\* The anchors left in the document, resolved against the page URL, that are
\* internal to baseUrl.
linksOf(anchors, url, depth, baseUrl) ==
    FlatMap(LAMBDA a : linkOf(a.href, url, depth, baseUrl), anchors)

\* The apiUrls of a page with those matching an exclusion predicate left out.
ApiUrlsNotExcluded(url) ==
    SelectSeq(extractDynamicApiUrls(Document(url).quoted, url),
              LAMBDA apiUrl : ~(isLoginPage(apiUrl) \/ isTracking(apiUrl)))

\* The apiUrls of the page a call fetched.
ApiUrlsOf(url) == extractDynamicApiUrls(Document(url).quoted, url)

\* jsonData, as the endpoint loop sets it from a response.
JsonDataOf(resp) ==
    IF resp.data.t \in {"object", "array", "null"} THEN resp.data
    ELSE IF resp.ctJson THEN resp.data
    ELSE IF resp.parses THEN resp.parsed
    ELSE JNull

\* One turn of the endpoint loop: what the response adds to apiTextParts.
EndpointTexts(kind, apiUrl) ==
    IF kind = "error" THEN <<>>
    ELSE Apply(LAMBDA jsonData :
                  IF \/ jsonData.t \in {"object", "array"}
                     \/ jsonData.t = "string" /\ jsonData.str # <<>>
                  THEN extractTextFromJson(jsonData) ELSE <<>>,
               JsonDataOf(Response(kind, apiUrl)))

\* fullText and chunks
ChunksOf(htmlText, apiTextParts) ==
    chunkText(trim(join(filterBoolean(<<htmlText>> \o apiTextParts), <<"\n">>)), CHUNK_SIZE)

\* crawlSingle from fullText to its return statement.  extractCleanHtmlText
\* has removed the noise tags from the one parsed document before
\* extractMedia and the link enumeration read it.
PageResultOf(t, apiTextParts, doc) ==
    [ok |-> TRUE,
     pageData |-> [url |-> t.url,
                   chunks |-> ChunksOf(extractCleanHtmlText(doc), apiTextParts),
                   pdfs |-> extractMedia(removeNoise(doc), t.url).pdfs,
                   images |-> extractMedia(removeNoise(doc), t.url).images],
     nextLinks |-> linksOf(removeNoise(doc).anchors, t.url, t.depth, startUrl)]
PageResult(t, apiTextParts) ==
    Apply(LAMBDA doc : PageResultOf(t, apiTextParts, doc), Document(t.url))

\* A call whose page request has settled: it has returned null, or returned
\* its result, or waits for its first endpoint.
AfterPage(t) ==
    IF ~FetchOk(t.url) THEN Returned(t, Null)
    ELSE Apply(LAMBDA apiUrls :
                  IF apiUrls = <<>> THEN Returned(t, PageResult(t, <<>>))
                  ELSE [t EXCEPT !.pc = "api", !.apiIdx = 1, !.apiUrls = apiUrls],
               ApiUrlsOf(t.url))

\* A call whose endpoint request has settled, given apiTextParts after this
\* turn of the loop: it waits for the next endpoint or has returned.
AfterApiWith(t, parts) ==
    IF t.apiIdx = Len(t.apiUrls)
    THEN Returned([t EXCEPT !.apiTextParts = parts, !.apiIdx = t.apiIdx + 1],
                  PageResult(t, parts))
    ELSE [t EXCEPT !.apiTextParts = parts, !.apiIdx = t.apiIdx + 1]

\* A call whose endpoint request has settled, with a failed request left
\* uncaught: the call returns nothing.
AfterApiFatal(t) ==
    IF apiKind[t.apiUrls[t.apiIdx]] = "error" THEN Returned(t, Null)
    ELSE Apply(LAMBDA parts : AfterApiWith(t, parts),
               t.apiTextParts \o EndpointTexts(apiKind[t.apiUrls[t.apiIdx]],
                                               t.apiUrls[t.apiIdx]))

AfterApi(t) ==
    Apply(LAMBDA parts : AfterApiWith(t, parts),
          t.apiTextParts \o EndpointTexts(apiKind[t.apiUrls[t.apiIdx]],
                                          t.apiUrls[t.apiIdx]))

\* ---------------------------------------------- MAIN SCRAPER FUNCTION
\* The calls started so far: the tasks, the visited set and the page
\* requests issued.  One more call of crawlSingle, up to its first await.
StartOne(acc, item) ==
    IF Admitted(item, acc.visited)
    THEN [tasks |-> Append(acc.tasks, Fetching(item)),
          visited |-> acc.visited \cup {item.url},
          started |-> Append(acc.started, item)]
    ELSE [acc EXCEPT !.tasks = Append(acc.tasks, Rejected(item))]

RECURSIVE StartFrom(_, _, _)
StartFrom(batch, i, acc) ==
    IF i > Len(batch) THEN acc
    ELSE Apply(LAMBDA a : StartFrom(batch, i + 1, a), StartOne(acc, batch[i]))

\* The calls of a batch as they would start if the admission test and
\* visited.add were separated by an await: every call tests the visited set
\* of the moment the batch was dispatched.
StartCallsRacy(batch, vis) ==
    [tasks |-> [i \in 1..Len(batch) |->
                  IF Admitted(batch[i], vis) THEN Fetching(batch[i])
                  ELSE Rejected(batch[i])],
     visited |-> vis \cup {batch[i].url : i \in {j \in 1..Len(batch) : Admitted(batch[j], vis)}},
     started |-> SelectSeq(batch, LAMBDA item : Admitted(item, vis))]

\* batch.map(item => crawlSingle(...)): each call runs, in batch order, up to
\* its first await before the next call starts.
StartCalls(batch, vis) ==
    Apply(LAMBDA b : StartFrom(b, 1, [tasks |-> <<>>, visited |-> vis, started |-> <<>>]),
          batch)

\* A batch of one entry more than concurrency.
BatchOneMore(q) == SubSeq(q, 1, Min(Len(q), concurrency + 1))

\* queue.splice(0, concurrency): the entries removed.
BatchOf(q) == SubSeq(q, 1, Min(Len(q), concurrency))

\* queue.slice(0, concurrency) in place of splice: the queue is left as it was.
QueueAfterSlice(q) == q

\* The batch taken and the rest of the queue thrown away.
QueueDropped(q) == <<>>

\* queue.splice(0, concurrency): the entries left in the queue.
QueueAfterSplice(q) == SubSeq(q, Min(Len(q), concurrency) + 1, Len(q))

\* The endpoint request a call has just issued, if it waits for one.
Issued(t) ==
    IF t.pc = "api" THEN <<[page |-> t.url, url |-> t.apiUrls[t.apiIdx]]>> ELSE <<>>

\* The while test passes: take a batch and start its calls.
Dispatch ==
    /\ pc = "loop"
    /\ Len(queue) > 0 /\ Cardinality(visited) < maxPages
    /\ \E calls \in {StartCalls(BatchOf(queue), visited)} :
          /\ tasks' = calls.tasks
          /\ visited' = calls.visited
          /\ fetchLog' = fetchLog \o calls.started
    /\ queue' = QueueAfterSplice(queue)
    /\ pc' = "await"
    /\ batches' = Min(batches + 1, MaxBatches)
    /\ UNCHANGED <<enqueued, apiLog, call, siteId, down, apiKind, startUrl, options, results>>

\* The page request of call i settles, and a failed fetch gives the URL's
\* place in visited back.
PageResponseReleasing(i) ==
    /\ pc = "await" /\ tasks[i].pc = "fetch"
    /\ tasks' = [tasks EXCEPT ![i] = AfterPage(tasks[i])]
    /\ visited' = IF FetchOk(tasks[i].url) THEN visited ELSE visited \ {tasks[i].url}
    /\ apiLog' = apiLog \o Issued(tasks'[i])
    /\ UNCHANGED <<enqueued, call, siteId, down, apiKind, startUrl, options, results, queue,
                   pc, fetchLog, batches>>

\* The page request of call i settles; the call runs on to its first endpoint
\* request or to its return.
PageResponse(i) ==
    /\ pc = "await" /\ tasks[i].pc = "fetch"
    /\ tasks' = [tasks EXCEPT ![i] = AfterPage(tasks[i])]
    /\ apiLog' = apiLog \o Issued(tasks'[i])
    /\ UNCHANGED <<enqueued, call, siteId, down, apiKind, startUrl, options, visited, results, queue,
                   pc, fetchLog, batches>>

\* The endpoint request of call i settles; the call runs on to the next
\* endpoint request or to its return.
ApiResponse(i) ==
    /\ pc = "await" /\ tasks[i].pc = "api"
    /\ tasks' = [tasks EXCEPT ![i] = AfterApi(tasks[i])]
    /\ apiLog' = apiLog \o Issued(tasks'[i])
    /\ UNCHANGED <<enqueued, call, siteId, down, apiKind, startUrl, options, visited, results, queue,
                   pc, fetchLog, batches>>

\* The links of one result, all of them.
EveryLink(nextLinks, vis) == nextLinks

\* The links of one result that go to nextQueue.
Unvisited(nextLinks, vis) == SelectSeq(nextLinks, LAMBDA ln : ln.url \notin vis)

\* The loop over batchResults leaving at the first null result (break for
\* continue).
CollectUntilNull(ts, vis) ==
    [records |-> FlatMap(LAMBDA i : IF \A k \in 1..i : ts[k].res.ok
                                    THEN <<ts[i].res.pageData>> ELSE <<>>,
                         [i \in 1..Len(ts) |-> i]),
     nextQueue |-> FlatMap(LAMBDA i : IF \A k \in 1..i : ts[k].res.ok
                                      THEN Unvisited(ts[i].res.nextLinks, vis) ELSE <<>>,
                           [i \in 1..Len(ts) |-> i])]

\* The loop over batchResults run from the last result to the first.
CollectReversed(ts, vis) ==
    [records |-> FlatMap(LAMBDA i : IF ts[Len(ts) + 1 - i].res.ok
                                    THEN <<ts[Len(ts) + 1 - i].res.pageData>> ELSE <<>>,
                         [i \in 1..Len(ts) |-> i]),
     nextQueue |-> FlatMap(LAMBDA i : IF ts[Len(ts) + 1 - i].res.ok
                                      THEN Unvisited(ts[Len(ts) + 1 - i].res.nextLinks, vis)
                                      ELSE <<>>,
                           [i \in 1..Len(ts) |-> i])]

\* The loop over batchResults: the records pushed and the nextQueue built.
Collect(ts, vis) ==
    [records |-> FlatMap(LAMBDA t : IF t.res.ok THEN <<t.res.pageData>> ELSE <<>>, ts),
     nextQueue |-> FlatMap(LAMBDA t : IF t.res.ok THEN Unvisited(t.res.nextLinks, vis)
                                      ELSE <<>>, ts)]

\* nextQueue put in front of the queue (a depth-first frontier).
QueueAfterUnshift(q, nextQueue) == nextQueue \o q

\* queue = queue.concat(nextQueue)
QueueAfterConcat(q, nextQueue) == q \o nextQueue

\* The join of a streaming scheduler: some call of the batch has returned.
SomeDone == \E i \in 1..Len(tasks) : tasks[i].pc = "done"

AllDone == \A i \in 1..Len(tasks) : tasks[i].pc = "done"

\* Promise.all resolves: every call of the batch has returned.
Join ==
    /\ pc = "await" /\ AllDone
    /\ \E got \in {Collect(tasks, visited)} :
          /\ results' = results \o got.records
          /\ queue' = QueueAfterConcat(queue, got.nextQueue)
          /\ enqueued' = enqueued \cup {got.nextQueue[k] : k \in 1..Len(got.nextQueue)}
    /\ pc' = "loop"
    /\ UNCHANGED <<apiLog, call, siteId, down, apiKind, startUrl, options, visited, tasks,
                   fetchLog, batches>>

\* The while test fails: return results.
Return ==
    /\ pc = "loop"
    /\ ~(Len(queue) > 0 /\ Cardinality(visited) < maxPages)
    /\ pc' = "returned"
    /\ UNCHANGED <<enqueued, apiLog, call, siteId, down, apiKind, startUrl, options, visited, results, queue,
                   tasks, fetchLog, batches>>

\* A crawlSingle call run from where it is to its return.
RECURSIVE RunToEnd(_)
RunToEnd(t) ==
    IF t.pc = "done" THEN t
    ELSE IF t.pc = "fetch" THEN Apply(RunToEnd, AfterPage(t))
    ELSE Apply(RunToEnd, AfterApi(t))

\* scrapeWebsite's loop run with the calls of each batch completing one after
\* the other in batch order: the results and the visited set at return.
RECURSIVE CrawlFrom(_, _, _)
CrawlFrom(q, vis, res) ==
    IF ~(Len(q) > 0 /\ Cardinality(vis) < maxPages)
    THEN [results |-> res, visited |-> vis]
    ELSE Apply(LAMBDA calls :
            Apply(LAMBDA got :
                     CrawlFrom(QueueAfterConcat(QueueAfterSplice(q), got.nextQueue),
                               calls.visited, res \o got.records),
                  Collect([i \in 1..Len(calls.tasks) |-> RunToEnd(calls.tasks[i])],
                          calls.visited)),
            StartCalls(BatchOf(q), vis))

\* ------------------------------------------------------ specification
\* The start URLs tried: the site root as new URL serializes it, the root
\* written without its trailing slash, and (site 2) two excluded URLs.
StartChoices(site) ==
    IF site = 2 THEN {UrlA, UrlA0, UrlLogin, UrlTrack}
    ELSE IF site = 3 THEN {UrlA}
    ELSE {UrlA, UrlA0}
Options ==
    [maxPages : {Absent} \cup 1..MaxPagesOpt,
     maxDepth : {Absent} \cup 0..MaxDepthOpt,
     concurrency : {Absent} \cup 1..MaxConcurrencyOpt]
DownChoices(site) ==
    IF site = 3 THEN {{}} ELSE {{}, {UrlA}, {UrlB}, {UrlC}}
ApiChoices(site) ==
    IF site = 3 THEN [EndpointUrls -> ResponseKinds]
    ELSE {[e \in EndpointUrls |-> "error"]}

Init ==
    /\ siteId \in SiteIds
    /\ down \in DownChoices(siteId)
    /\ apiKind \in ApiChoices(siteId)
    /\ startUrl \in StartChoices(siteId)
    /\ options \in Options
    /\ visited = {}
    /\ results = <<>>
    /\ queue = <<[url |-> startUrl, depth |-> 0]>>
    /\ tasks = <<>>
    /\ pc = "loop"
    /\ fetchLog = <<>>
    /\ batches = 0
    /\ enqueued = {[url |-> startUrl, depth |-> 0]}
    /\ apiLog = <<>>
    /\ call = NoCall

Next ==
    \/ Dispatch
    \/ \E i \in 1..Len(tasks) : PageResponse(i)
    \/ \E i \in 1..Len(tasks) : ApiResponse(i)
    \/ Join
    \/ Return

Spec == Init /\ [][Next]_vars

\* The event loop runs a continuation that is ready, and every HTTP request
\* settles: axios is given a timeout on each call (15 s page, 10 s endpoint).
FairSpec == Spec /\ WF_vars(Next)

\* --------------------------------------------- the helpers called alone
\* The texts chunkText is called with: every string of at most MaxTextLen
\* characters over two letters, the space and the newline.
MaxTextLen == 6
MaxChunkSize == 3
TextChars == {"a", "b", " ", "\n"}
Texts == UNION {[1..n -> TextChars] : n \in 0..MaxTextLen}

HttpACom == Scheme \o <<"a", ".", "c", "o", "m">>
HttpBCom == Scheme \o <<"b", ".", "c", "o", "m">>
HttpXCom == Scheme \o <<"x", ".", "c", "o", "m">>
NotAUrl == <<"n","o","t"," ","a"," ","u","r","l">>

\* The bases and links isInternal is called with.
Bases ==
    {HttpACom, Scheme \o <<"A", ".", "c", "o", "m", "/", "p", "/", "q">>,
     <<"a", ".", "c", "o", "m">>, Scheme}
Links ==
    {HttpACom \o <<"/", "x">>, HttpBCom \o <<"/", "x">>, NotAUrl,
     Scheme \o <<"s", "u", "b", ".", "a", ".", "c", "o", "m", "/", "x">>,
     <<"/", "x">>, <<"x">>, <<"/", "/", "b", ".", "c", "o", "m", "/", "x">>,
     Scheme, Scheme \o <<"a", " ", "b">>, <<>>}

\* The urls isLoginPage and isTracking are called with.
Paths ==
    {<<"L","o","g","i","n">>, <<"a","b","o","u","t">>, <<"S","I","G","N","I","N">>,
     <<"o","A","u","t","h","2">>, <<"m","y","-","A","c","c","o","u","n","t">>,
     <<"l","o","g","-","i","n">>, <<"?","u","t","m","_","x","=","1">>,
     <<"?","p","R","e","f","=","1">>, <<"T","r","a","c","k","i","n","g">>,
     <<"?","g","c","l","i","d">>, <<"?","F","B","C","L","I","D","=","2">>,
     <<"r","e","f">>, <<"u","t","m">>, <<>>}
Urls ==
    {HttpXCom \o <<"/">> \o p : p \in Paths}
       \cup {Scheme \o <<"a","u","t","h",".","x",".","c","o","m","/">>,
             Scheme \o <<"t","r","a","c","k","i","n","g",".","x","/">>,
             <<>>, Undefined}

\* The quoted literals extractDynamicApiUrls is called with.
Literals ==
    {Api1, Api2, <<"/","v","/","g","e","t","2">>, <<"/","/","x","/","G","e","t","3">>,
     CoursePrefix \o <<"1">>, <<"/","c","o","u","r","s","e","/","1">>, <<"/","v">>,
     <<"/","A","P","I","/","1">>}
Quoted == {<<>>} \cup {<<l>> : l \in Literals} \cup {<<l, m>> : l \in Literals, m \in Literals}

Calls ==
    {[fn |-> "chunkText", args |-> <<text, chunkSize>>, pc |-> "called", out |-> <<>>] :
        text \in Texts, chunkSize \in 1..MaxChunkSize}
    \cup {[fn |-> "isInternal", args |-> <<base, link>>, pc |-> "called", out |-> <<>>] :
            base \in Bases, link \in Links}
    \cup {[fn |-> f, args |-> <<url>>, pc |-> "called", out |-> <<>>] :
            f \in {"isLoginPage", "isTracking"}, url \in Urls}
    \cup {[fn |-> "extractDynamicApiUrls", args |-> <<quoted, baseUrl>>, pc |-> "called",
           out |-> <<>>] : quoted \in Quoted, baseUrl \in {UrlA, UrlB}}

HelperInit ==
    /\ call \in Calls
    /\ siteId = 1 /\ down = {} /\ apiKind = [e \in EndpointUrls |-> "error"]
    /\ startUrl = UrlA
    /\ options = [maxPages |-> Absent, maxDepth |-> Absent, concurrency |-> Absent]
    /\ visited = {} /\ results = <<>> /\ queue = <<>> /\ tasks = <<>>
    /\ pc = "idle" /\ fetchLog = <<>> /\ batches = 0
    /\ enqueued = {} /\ apiLog = <<>>

\* The call returns out.
Returns(out) ==
    /\ call' = [call EXCEPT !.out = out, !.pc = "returned"]
    /\ UNCHANGED crawlVars

CallChunkText ==
    /\ call.fn = "chunkText" /\ call.pc = "called"
    /\ Returns(chunkText(call.args[1], call.args[2]))

CallIsInternal ==
    /\ call.fn = "isInternal" /\ call.pc = "called"
    /\ Returns(isInternal(call.args[1], call.args[2]))

CallIsLoginPage ==
    /\ call.fn = "isLoginPage" /\ call.pc = "called"
    /\ Returns(isLoginPage(call.args[1]))

CallIsTracking ==
    /\ call.fn = "isTracking" /\ call.pc = "called"
    /\ Returns(isTracking(call.args[1]))

CallExtractDynamicApiUrls ==
    /\ call.fn = "extractDynamicApiUrls" /\ call.pc = "called"
    /\ Returns(extractDynamicApiUrls(call.args[1], call.args[2]))

HelperNext ==
    \/ CallChunkText
    \/ CallIsInternal
    \/ CallIsLoginPage
    \/ CallIsTracking
    \/ CallExtractDynamicApiUrls

HelperSpec == HelperInit /\ [][HelperNext]_vars

\* ================================================================ claims
Excluded(url) == isLoginPage(url) \/ isTracking(url)
RecordUrls == {results[i].url : i \in 1..Len(results)}
FetchedUrls == {fetchLog[i].url : i \in 1..Len(fetchLog)}

\* C1: in every state of a crawl the number of page fetches started so far
\* equals the size of visited and is at most maxPages; a fetch that failed
\* stays counted.
C1_FetchAttemptsBounded ==
    /\ Len(fetchLog) = Cardinality(visited)
    /\ Cardinality(visited) <= maxPages

\* The budget is used up, one of the counted fetches has failed, and entries
\* are still waiting in the queue.
C1_Witness ==
    /\ Cardinality(visited) = maxPages
    /\ Len(fetchLog) = maxPages
    /\ \E i \in 1..Len(tasks) :
          tasks[i].admitted /\ tasks[i].pc = "done" /\ ~FetchOk(tasks[i].url)
    /\ Len(queue) > 0

\* C2: when scrapeWebsite returns, a URL has a record iff it was admitted to
\* visited and its page fetch succeeded; so |results| <= |visited| <= maxPages.
C2_RecordIffAdmittedAndFetched ==
    pc = "returned" =>
        /\ RecordUrls = {u \in visited : FetchOk(u)}
        /\ Len(results) <= Cardinality(visited)
        /\ Cardinality(visited) <= maxPages

\* A crawl has returned with several records and with an admitted URL that
\* has none because its fetch failed.
C2_Witness ==
    /\ pc = "returned"
    /\ Len(results) >= 2
    /\ \E u \in visited : ~FetchOk(u) /\ u \notin RecordUrls

\* C3: no two records of a crawl have the same url, whatever the link graph.
C3_NoDuplicateRecords ==
    \A i, j \in 1..Len(results) : i # j => results[i].url # results[j].url

\* On the site with cycles and repeated links, a batch that held the same URL
\* twice has been collected, and a collected page links back to a recorded one.
C3_Witness ==
    /\ siteId = 2 /\ pc = "loop"
    /\ Len(results) >= 2
    /\ \E i, j \in 1..Len(tasks) : i < j /\ tasks[i].url = tasks[j].url
    /\ \E i \in 1..Len(tasks) :
          \E k \in 1..Len(tasks[i].res.nextLinks) :
             tasks[i].res.nextLinks[k].url \in RecordUrls

C5_DepthWithinPassedMaxDepth ==
    options.maxDepth # Absent =>
        /\ \A i \in 1..Len(fetchLog) : fetchLog[i].depth <= options.maxDepth
        /\ \A i \in 1..Len(tasks) :
              tasks[i].admitted => tasks[i].depth <= options.maxDepth

\* C6: no URL that isLoginPage or isTracking accepts is added to visited,
\* fetched as a page or recorded; a crawl whose start URL is such a URL
\* fetches nothing and returns an empty result.
C6_ExcludedNeverAdmitted ==
    /\ \A u \in visited \cup FetchedUrls \cup RecordUrls : ~Excluded(u)
    /\ \A i \in 1..Len(tasks) : Excluded(tasks[i].url) => ~tasks[i].admitted
    /\ Excluded(startUrl) => fetchLog = <<>> /\ results = <<>> /\ visited = {}

\* A batch held a login link (written with a capital L) and a tracking link
\* next to an admitted entry; both were turned away.
C6_Witness ==
    /\ \E i \in 1..Len(tasks) : isLoginPage(tasks[i].url) /\ tasks[i].pc = "done"
    /\ \E i \in 1..Len(tasks) : isTracking(tasks[i].url) /\ tasks[i].pc = "done"
    /\ \E i \in 1..Len(tasks) : tasks[i].admitted
    /\ Len(results) >= 1

\* C7: with maxPages >= 1 and concurrency >= 1, and every HTTP request
\* settling, scrapeWebsite eventually returns, and when it returns the queue
\* is empty or visited has reached maxPages.
C7_EventuallyReturns ==
    <>(pc = "returned" /\ (Len(queue) = 0 \/ Cardinality(visited) >= maxPages))

\* A crawl of the cyclic site returned on its page budget with entries still
\* queued.
C7_Witness ==
    /\ pc = "returned" /\ siteId = 2
    /\ Len(queue) > 0 /\ Cardinality(visited) = maxPages
    /\ options.maxPages >= 1 /\ options.concurrency >= 1

\* C8: at most concurrency page fetches are in flight, and the batches are
\* separated by a join-all barrier: no entry is dispatched, no link enqueued
\* and no record collected while a call of the current batch is unfinished.
C8_BoundedFanOutWithBarrier ==
    /\ [](Cardinality({i \in 1..Len(tasks) : tasks[i].pc = "fetch"}) <= concurrency)
    /\ [][(queue' # queue \/ fetchLog' # fetchLog \/ results' # results)
            => \A i \in 1..Len(tasks) : tasks[i].pc = "done"]_vars

\* A full batch of the concurrency the caller passed: one call has returned,
\* another still waits for its page, and entries wait in the queue.
C8_Witness ==
    /\ pc = "await" /\ options.concurrency >= 2
    /\ Len(tasks) = options.concurrency
    /\ \E i, j \in 1..Len(tasks) :
          /\ tasks[i].pc = "done" /\ tasks[i].res.ok /\ tasks[i].res.nextLinks # <<>>
          /\ tasks[j].pc = "fetch"
    /\ Len(queue) > 0

\* C9: a failed page fetch gives no record and leaves the URL in visited; the
\* scheduler sees, per entry, a record of that entry's URL or nothing; the
\* crawl goes on, and returns an empty result when the start URL fails.
C9_PageFailureIsNotFatal ==
    /\ \A i \in 1..Len(fetchLog) :
          ~FetchOk(fetchLog[i].url) =>
              fetchLog[i].url \in visited /\ fetchLog[i].url \notin RecordUrls
    /\ \A i \in 1..Len(tasks) :
          tasks[i].pc = "done" =>
              \/ tasks[i].res = Null
              \/ tasks[i].res.ok /\ tasks[i].res.pageData.url = tasks[i].url
    /\ \A i \in 1..Len(tasks) :
          (tasks[i].pc = "done" /\ ~FetchOk(tasks[i].url)) => tasks[i].res = Null
    /\ Cardinality(visited) = Len(fetchLog)
    /\ (pc = "returned" /\ ~FetchOk(startUrl)) => results = <<>>

\* A crawl returned after a page other than the start page failed: the failed
\* URL is in visited, and a page fetched after it has its record.
C9_Witness ==
    /\ pc = "returned"
    /\ \E k, j \in 1..Len(fetchLog) :
          /\ k < j /\ ~FetchOk(fetchLog[k].url) /\ fetchLog[k].url \in visited
          /\ fetchLog[j].url \in RecordUrls

C11_ThreePageSite ==
    ( /\ siteId = 1 /\ down = {}
      /\ options.maxDepth = 1 /\ maxPages = 10 /\ options.concurrency = 2
      /\ pc = "returned" )
    => /\ RecordUrls = {startUrl, UrlB, UrlC}
       /\ Len(results) = 3

\* That crawl has returned: B and C went out in one batch of two, and the
\* links back to A and the links to X were found on them.
C11_Witness ==
    /\ siteId = 1 /\ down = {}
    /\ options.maxDepth = 1 /\ maxPages = 10 /\ options.concurrency = 2
    /\ pc = "returned"
    /\ Len(fetchLog) = 3 /\ batches >= 2
    /\ Len(Document(UrlB).anchors) = 2 /\ Len(Document(UrlC).anchors) = 2

\* C12: with maxPages = 1 passed, a crawl from a page A that can be fetched
\* and is not excluded returns exactly one record, the record of A, whatever
\* the links of A.
C12_SinglePageBudget ==
    (options.maxPages = 1 /\ FetchOk(startUrl) /\ ~Excluded(startUrl))
    => /\ \A i \in 1..Len(results) : results[i].url = startUrl
       /\ Len(results) <= 1
       /\ pc = "returned" => Len(results) = 1

\* A crawl with maxPages = 1 returned its one record and left the links of the
\* start page, several of them, in the queue.
C12_Witness ==
    /\ options.maxPages = 1 /\ pc = "returned"
    /\ Len(results) = 1 /\ results[1].url = startUrl
    /\ Len(queue) >= 3

\* C13: for a page fetched successfully crawlSingle returns, in document
\* order and without de-duplication, one entry {url: resolved, depth: depth+1}
\* for every anchor of the page that resolves to a URL internal to startUrl,
\* anchors inside nav, header, footer, form and aside included, and no other
\* entry.
C13_LinksFromEveryAnchor ==
    \A i \in 1..Len(tasks) :
        (tasks[i].pc = "done" /\ tasks[i].res.ok) =>
            tasks[i].res.nextLinks =
                linksOf(Document(tasks[i].url).anchors, tasks[i].url, tasks[i].depth,
                        startUrl)

\* C14: the records are in dispatch order, batch after batch and inside a
\* batch in the order of its queue entries, and the returned list and the
\* final visited set do not depend on the order in which the fetches of a
\* batch complete: they are those of the crawl whose calls complete in
\* batch order.
C14_ResultOrderIsDispatchOrder ==
    /\ pc # "await" =>
          [i \in 1..Len(results) |-> results[i].url]
             = FlatMap(LAMBDA e : IF FetchOk(e.url) THEN <<e.url>> ELSE <<>>, fetchLog)
    /\ pc = "returned" =>
          \E ref \in {CrawlFrom(<<[url |-> startUrl, depth |-> 0]>>, {}, <<>>)} :
              results = ref.results /\ visited = ref.visited

\* In a batch after the first, a later entry's call has returned its record
\* while the first entry's call still waits for its page.
C14_Witness ==
    /\ pc = "await" /\ Len(tasks) >= 2 /\ results # <<>>
    /\ tasks[1].pc = "fetch" /\ FetchOk(tasks[1].url)
    /\ tasks[2].pc = "done" /\ tasks[2].res.ok

\* The depths of the current batch's entries followed by those of the queue.
DepthsInOrder ==
    [i \in 1..Len(tasks) |-> tasks[i].depth] \o [i \in 1..Len(queue) |-> queue[i].depth]

\* C15: the queue is sorted by non-decreasing depth in every state, and the
\* entries of a batch are no deeper than any entry dispatched after them:
\* the batch's depths followed by the queue's are non-decreasing, and a step
\* that dispatches a batch takes it from a queue whose entries are no
\* shallower than those of the batch before.
C15_QueueSortedByDepth ==
    /\ [](\A i, j \in 1..Len(queue) : i < j => queue[i].depth <= queue[j].depth)
    /\ [](\A i, j \in 1..Len(DepthsInOrder) : i < j => DepthsInOrder[i] <= DepthsInOrder[j])
    /\ [][batches' # batches =>
            \A i \in 1..Len(tasks) : \A j \in 1..Len(tasks') :
                tasks[i].depth <= tasks'[j].depth]_vars

\* A batch that mixes two depths has been collected: the queue holds entries
\* of two depths, the deeper ones behind.
C15_Witness ==
    /\ pc = "loop" /\ batches >= 2
    /\ \E i, j \in 1..Len(tasks) : tasks[i].depth < tasks[j].depth
    /\ \E i, j \in 1..Len(queue) : queue[i].depth < queue[j].depth

\* The words of a text, read off its characters: a word starts at a
\* character that is not whitespace and follows whitespace or nothing, and
\* runs to the last character before the next whitespace.
WordStarts(s) == {i \in 1..Len(s) : ~IsSpace(s[i]) /\ (i = 1 \/ IsSpace(s[i - 1]))}
WordEnd(s, i) ==
    CHOOSE j \in i..Len(s) :
        /\ \A k \in i..j : ~IsSpace(s[k])
        /\ j = Len(s) \/ IsSpace(s[j + 1])
WordsOf(s) ==
    LET n == Cardinality(WordStarts(s))
        start == CHOOSE f \in [1..n -> WordStarts(s)] :
                    \A a, b \in 1..n : a < b => f[a] < f[b]
    IN [k \in 1..n |-> SubSeq(s, start[k], WordEnd(s, start[k]))]

\* C16: for every text and every chunkSize >= 1 the chunks chunkText returns
\* partition the word sequence of the text: their words, concatenated in
\* order, are exactly the whitespace-separated non-empty words of the text;
\* every chunk but the last has chunkSize words, the last has between 1 and
\* chunkSize, and each chunk is its words joined by single spaces.
C16_ChunkTextIsLosslessPartition ==
    (call.fn = "chunkText" /\ call.pc = "returned") =>
        LET chunks == call.out
            chunkSize == call.args[2]
        IN /\ Concat([i \in 1..Len(chunks) |-> WordsOf(chunks[i])]) = WordsOf(call.args[1])
           /\ \A i \in 1..Len(chunks) :
                 /\ Len(WordsOf(chunks[i])) \in 1..chunkSize
                 /\ i < Len(chunks) => Len(WordsOf(chunks[i])) = chunkSize
                 /\ chunks[i] = join(WordsOf(chunks[i]), <<" ">>)

\* chunkText returned two chunks for a text of three words, two of them
\* equal, with whitespace runs around and between them.
C16_Witness ==
    /\ call.fn = "chunkText" /\ call.pc = "returned"
    /\ call.args[2] = 2 /\ Len(call.out) = 2
    /\ Len(WordsOf(call.args[1])) = 3
    /\ WordsOf(call.args[1])[1] = WordsOf(call.args[1])[3]
    /\ IsSpace(call.args[1][1])

\* C17: isInternal(base, link) is true exactly when link resolves against
\* base to a URL whose hostname equals base's (a subdomain of it is not
\* internal), and false, with nothing thrown, when link is not a valid URL:
\* true for (http://a.com, http://a.com/x), false for
\* (http://a.com, http://b.com/x) and false for (http://a.com, "not a url").
C17_IsInternalExamples ==
    (call.fn = "isInternal" /\ call.pc = "returned") =>
        LET base == call.args[1]
            link == call.args[2]
        IN /\ call.out \in BOOLEAN
           /\ call.out = ( /\ ParseAbsolute(base) # Invalid
                           /\ Resolve(link, base) # Invalid
                           /\ hostname(Resolve(link, base)) = hostname(ParseAbsolute(base)) )
           /\ (base = HttpACom /\ link = HttpACom \o <<"/", "x">>) => call.out = TRUE
           /\ (base = HttpACom /\ link = HttpBCom \o <<"/", "x">>) => call.out = FALSE
           /\ (base = HttpACom /\ hostname(link) = <<"s","u","b",".","a",".","c","o","m">>)
                 => call.out = FALSE
           /\ (base = HttpACom /\ link = NotAUrl) => call.out = FALSE

\* Whether word occurs in url with the case of url's letters ignored.
OccursIgnoringCase(word, url) ==
    \E i \in 1..(Len(url) - Len(word) + 1) :
        \A k \in 1..Len(word) : LowerChar(url[i + k - 1]) = word[k]
LoginWords ==
    {<<"l","o","g","i","n">>, <<"s","i","g","n","i","n">>, <<"a","u","t","h">>,
     <<"a","c","c","o","u","n","t">>}
TrackingWords ==
    {<<"u","t","m","_">>, <<"r","e","f","=">>, <<"t","r","a","c","k","i","n","g">>,
     <<"g","c","l","i","d">>, <<"f","b","c","l","i","d">>}

\* The urls of Urls a login word, and a tracking word, occurs in.
LoginUrls ==
    {HttpXCom \o <<"/">> \o p :
        p \in {<<"L","o","g","i","n">>, <<"S","I","G","N","I","N">>,
               <<"o","A","u","t","h","2">>, <<"m","y","-","A","c","c","o","u","n","t">>}}
       \cup {Scheme \o <<"a","u","t","h",".","x",".","c","o","m","/">>}
TrackingUrls ==
    {HttpXCom \o <<"/">> \o p :
        p \in {<<"?","u","t","m","_","x","=","1">>, <<"?","p","R","e","f","=","1">>,
               <<"T","r","a","c","k","i","n","g">>, <<"?","g","c","l","i","d">>,
               <<"?","F","B","C","L","I","D","=","2">>}}
       \cup {Scheme \o <<"t","r","a","c","k","i","n","g",".","x","/">>}

\* C18: isLoginPage(url) is true exactly when the lower-cased url contains
\* login, signin, auth or account anywhere, the host included, and
\* isTracking(url) exactly when it contains utm_, ref=, tracking, gclid or
\* fbclid; both return a boolean, false for an empty or a missing url.
C18_ExclusionPredicates ==
    /\ (call.fn = "isLoginPage" /\ call.pc = "returned") =>
          /\ call.out \in BOOLEAN
          /\ call.args[1] \in {<<>>, Undefined} => call.out = FALSE
          /\ call.args[1] # Undefined =>
                call.out = (\E w \in LoginWords : OccursIgnoringCase(w, call.args[1]))
          /\ call.out = (call.args[1] \in LoginUrls)
    /\ (call.fn = "isTracking" /\ call.pc = "returned") =>
          /\ call.out \in BOOLEAN
          /\ call.args[1] \in {<<>>, Undefined} => call.out = FALSE
          /\ call.args[1] # Undefined =>
                call.out = (\E w \in TrackingWords : OccursIgnoringCase(w, call.args[1]))
          /\ call.out = (call.args[1] \in TrackingUrls)

\* isLoginPage has returned true for http://x.com/Login.
C18_Witness ==
    /\ call.fn = "isLoginPage" /\ call.pc = "returned"
    /\ call.args[1] = HttpXCom \o <<"/", "L", "o", "g", "i", "n">>
    /\ call.out = TRUE

\* The entries of nextLinks whose URL is not in visited now.
NotVisitedNow(nextLinks) ==
    [k \in 1..Cardinality({j \in 1..Len(nextLinks) : nextLinks[j].url \notin visited}) |->
        nextLinks[CHOOSE j \in 1..Len(nextLinks) :
                     /\ nextLinks[j].url \notin visited
                     /\ Cardinality({m \in 1..j : nextLinks[m].url \notin visited}) = k]]

\* C19: the step that ends a batch appends to the back of the queue, in
\* result order, exactly the next-hop entries of the non-null results whose
\* URL is not in visited at that moment, and nothing for a null result; the
\* entries already waiting stay where they are.  No other step adds to the
\* queue: a dispatch removes entries from its front only.
C19_JoinAppendsUnvisitedLinks ==
    /\ [][(pc = "await" /\ pc' = "loop") =>
            queue' = queue \o Concat([i \in 1..Len(tasks) |->
                                        IF tasks[i].res = Null THEN <<>>
                                        ELSE NotVisitedNow(tasks[i].res.nextLinks)])]_vars
    /\ [][~(pc = "await" /\ pc' = "loop") =>
            \E n \in 0..Len(queue) : queue' = SubSeq(queue, n + 1, Len(queue))]_vars

\* A batch has just been collected: one of its calls failed, one returned a
\* link that is in visited and a link that is not, and an entry that none of
\* the batch's results holds was waiting in the queue before.
C19_Witness ==
    /\ pc = "loop" /\ tasks # <<>>
    /\ \E i \in 1..Len(tasks) : tasks[i].admitted /\ tasks[i].res = Null
    /\ \E i \in 1..Len(tasks) :
          /\ \E k \in 1..Len(tasks[i].res.nextLinks) :
                tasks[i].res.nextLinks[k].url \in visited
          /\ \E k \in 1..Len(tasks[i].res.nextLinks) :
                /\ tasks[i].res.nextLinks[k].url \notin visited
                /\ tasks[i].res.nextLinks[k] = queue[Len(queue)]
    /\ \A i \in 1..Len(tasks) : \A k \in 1..Len(tasks[i].res.nextLinks) :
          tasks[i].res.nextLinks[k] # queue[1]

\* C20: the number of batches dispatched in one crawl is at most
\* ceil(maxPages / concurrency).
C20_BatchCountBounded ==
    batches <= (maxPages + concurrency - 1) \div concurrency

\* C21: the noise-tag removal of the text extraction does not reach the
\* media extraction: the pdfs and images of a record are those of the whole
\* page, a .pdf anchor or an image inside nav, header, footer, form or aside
\* included.
C21_MediaFromWholeDocument ==
    \A i \in 1..Len(tasks) :
        (tasks[i].pc = "done" /\ tasks[i].res.ok) =>
            /\ tasks[i].res.pageData.pdfs = extractMedia(Document(tasks[i].url), tasks[i].url).pdfs
            /\ tasks[i].res.pageData.images
                  = extractMedia(Document(tasks[i].url), tasks[i].url).images

\* The image link of an img whose src, taken as written, ends in an image
\* extension whatever its letter case: the src as written, resolved.
ImageAsWritten(src, baseUrl) ==
    IF src # <<>> /\ (\E ext \in ImageExts : endsWith(toLowerCase(src), ext))
          /\ Resolve(src, baseUrl) # Invalid
    THEN <<Resolve(src, baseUrl)>> ELSE <<>>

\* C22: the url of an emitted image link is the src attribute as written,
\* resolved against the page URL as a document href is; the letter case of
\* the src counts for nothing in the extension test and is kept in the url.
C22_ImageUrlKeepsCase ==
    \A i \in 1..Len(tasks) :
        (tasks[i].pc = "done" /\ tasks[i].res.ok) =>
            [k \in 1..Len(tasks[i].res.pageData.images) |->
                tasks[i].res.pageData.images[k].url]
              = FlatMap(LAMBDA img : ImageAsWritten(img.href, tasks[i].url),
                        removeNoise(Document(tasks[i].url)).imgs)

\* C25: an endpoint response whose body cannot be decoded as JSON adds no
\* text to the page's chunks, whatever content-type it declares.
C25_UndecodableBodyAddsNoText ==
    \A i \in 1..Len(tasks) :
        (tasks[i].pc = "done" /\ tasks[i].res.ok) =>
            \A k \in 1..Len(tasks[i].apiUrls) :
                apiKind[tasks[i].apiUrls[k]] \in {"textJson", "textPlain"} =>
                    ~includes(join(tasks[i].res.pageData.chunks, <<" ">>),
                              <<MarkOf(tasks[i].apiUrls[k])>>)

\* The page fetches started for the start page, under any spelling of its URL.
StartPageFetches ==
    {i \in 1..Len(fetchLog) : ParseAbsolute(fetchLog[i].url) = ParseAbsolute(startUrl)}

\* C28: the start page is fetched, and recorded, at most once per crawl,
\* also when a back-link to it resolves to a string other than the startUrl
\* the caller passed and maxDepth >= 2 lets the back-link through.
C28_StartPageFetchedOnce ==
    /\ Cardinality(StartPageFetches) <= 1
    /\ Cardinality({i \in 1..Len(results) :
                      ParseAbsolute(results[i].url) = ParseAbsolute(startUrl)}) <= 1

\* Whether the quoted literal lit matches pattern k with the marker or the
\* /Course/ prefix in the case the pattern is written in (the /api/ pattern is
\* taken as the code takes it).
MatchesAsWritten(k, lit) ==
    IF k = 1
    THEN MatchesPattern(1, lit)
    ELSE IF k = 6
    THEN /\ startsWith(lit, CoursePrefix) /\ Len(lit) > Len(CoursePrefix)
         /\ \A j \in (Len(CoursePrefix) + 1)..Len(lit) : IsPathChar(lit[j])
    ELSE /\ startsWith(lit, <<"/">>)
         /\ \A j \in 2..Len(lit) : IsPathChar(lit[j])
         /\ \E i \in 2..(Len(lit) - Len(Markers[k - 1])) :
               SubSeq(lit, i, i + Len(Markers[k - 1]) - 1) = Markers[k - 1]

\* C23: endpoint discovery matches the markers Get, Fetch, detail, overview
\* and the prefix /Course/ case-sensitively: the URL of a quoted path is
\* returned only if some quoted path with that URL holds a marker in the case
\* it is written in; a path holding a marker only in another case is not
\* returned.
C23_MarkersMatchCaseSensitively ==
    (call.fn = "extractDynamicApiUrls" /\ call.pc = "returned") =>
        \A j \in 1..Len(call.args[1]) :
           (\E n \in 1..Len(call.out) : call.out[n] = Resolve(call.args[1][j], call.args[2]))
              => \E m \in 1..Len(call.args[1]) :
                    /\ Resolve(call.args[1][m], call.args[2])
                          = Resolve(call.args[1][j], call.args[2])
                    /\ \E k \in 1..6 : MatchesAsWritten(k, call.args[1][m])

\* C24: every URL extractDynamicApiUrls returns for a page has the origin of
\* the page's URL, also when the text holds quoted paths that begin with two
\* slashes.
C24_EndpointsAreSameOrigin ==
    (call.fn = "extractDynamicApiUrls" /\ call.pc = "returned") =>
        \A n \in 1..Len(call.out) :
           /\ startsWith(call.out[n], Scheme)
           /\ hostname(call.out[n]) = hostname(call.args[2])

\* The URLs a successfully fetched page emits as next links.
EmittedBy(u) ==
    {l.url : l \in {linksOf(removeNoise(Document(u)).anchors, u, 0, startUrl)[j] :
                       j \in 1..Len(linksOf(removeNoise(Document(u)).anchors, u, 0, startUrl))}}

\* The URLs matching neither exclusion predicate that a chain of at most k
\* links emitted by successfully fetched pages reaches from the start URL.
RECURSIVE Reach(_)
Reach(k) ==
    IF k = 0 THEN {u \in {startUrl} : ~Excluded(u)}
    ELSE Reach(k - 1)
           \cup {v \in UNION {EmittedBy(u) : u \in {w \in Reach(k - 1) : FetchOk(w)}} :
                    ~Excluded(v)}

\* C26: when scrapeWebsite returns with visited.size < maxPages, every URL
\* that a chain of at most maxDepth next links emitted by successfully
\* fetched pages reaches from the start URL, and that matches neither
\* exclusion predicate, is in visited, and has a record if its fetch succeeds.
C26_ReachableUrlsCrawled ==
    (pc = "returned" /\ Cardinality(visited) < maxPages) =>
        \A u \in Reach(maxDepth) :
           /\ u \in visited
           /\ FetchOk(u) => u \in RecordUrls

C26_Witness ==
    /\ pc = "returned" /\ Cardinality(visited) < maxPages
    /\ maxDepth = 2 /\ Cardinality(Reach(2)) >= 3 /\ Reach(2) # Reach(1)
    /\ \E u \in Reach(2) : ~FetchOk(u)
    /\ Reach(2) \subseteq visited

\* C27: every URL is admitted at the smallest depth of the queue entries
\* ever created for it: no fetch of a URL starts at depth d while, or before,
\* an entry for that URL with a smaller depth exists; so when the crawl
\* returns with budget left, every URL that has an entry within maxDepth and
\* matches neither exclusion predicate has been admitted.
C27_AdmittedAtSmallestDepth ==
    /\ \A i \in 1..Len(fetchLog) : \A e \in enqueued :
          e.url = fetchLog[i].url => fetchLog[i].depth <= e.depth
    /\ (pc = "returned" /\ Cardinality(visited) < maxPages) =>
          \A e \in enqueued :
             (e.depth <= maxDepth /\ ~Excluded(e.url)) => e.url \in visited

C27_Witness ==
    /\ pc = "returned"
    /\ \E i \in 1..Len(fetchLog) : \E e \in enqueued : \E f \in enqueued :
          /\ e.url = fetchLog[i].url /\ f.url = fetchLog[i].url
          /\ e.depth = fetchLog[i].depth /\ f.depth > e.depth
          /\ f.depth <= maxDepth

\* The calls that wait for the response of an HTTP request.
InFlight == {i \in 1..Len(tasks) : tasks[i].pc \in {"fetch", "api"}}

\* The endpoint requests issued so far for the page url, in order.
IssuedFor(url) ==
    [k \in 1..Cardinality({j \in 1..Len(apiLog) : apiLog[j].page = url}) |->
        apiLog[CHOOSE j \in 1..Len(apiLog) :
                  /\ apiLog[j].page = url
                  /\ Cardinality({m \in 1..j : apiLog[m].page = url}) = k].url]

\* C29: within one crawlSingle call the endpoint requests are issued one
\* after another and only after the page request has completed: a call
\* waiting for its page has issued none, a call waiting for its n-th endpoint
\* has issued exactly the first n; so at most concurrency HTTP requests, page
\* or endpoint, are in flight at any moment.
C29_RequestsInFlightBounded ==
    /\ Cardinality(InFlight) <= concurrency
    /\ \A i \in 1..Len(tasks) :
          /\ tasks[i].pc = "fetch" => IssuedFor(tasks[i].url) = <<>>
          /\ tasks[i].pc = "api" =>
                /\ FetchOk(tasks[i].url)
                /\ tasks[i].apiIdx \in 1..Len(tasks[i].apiUrls)
                /\ IssuedFor(tasks[i].url) = SubSeq(tasks[i].apiUrls, 1, tasks[i].apiIdx)

C29_Witness ==
    /\ pc = "await" /\ concurrency = 2 /\ Cardinality(InFlight) = 2
    /\ \E i \in InFlight : tasks[i].pc = "api"
    /\ \E i \in InFlight : tasks[i].pc = "fetch"
    /\ Len(apiLog) = 3

\* The page URLs whose crawlSingle call has run past its endpoint loop.
PagesPastEndpoints ==
    RecordUrls \cup {tasks[i].url : i \in {j \in 1..Len(tasks) : tasks[j].pc = "done" /\ tasks[j].res.ok}}

\* A step in which an endpoint request is issued or settles.
EndpointStep ==
    \/ apiLog' # apiLog
    \/ \E i \in 1..Len(tasks) : tasks[i].pc = "api" /\ tasks'[i] # tasks[i]

\* C30: endpoint fetching is outside admission control and leaves the crawl
\* state unchanged: a step that issues or settles an endpoint request leaves
\* visited, the queue and the count of page fetches as they were, and every
\* page past its endpoint loop has requested each URL extractDynamicApiUrls
\* returns for it exactly once, whatever visited, the budget, the depth and
\* the login and tracking predicates say of that URL; so an endpoint is
\* requested once for every page that advertises it.
C30_EndpointsOutsideAdmission ==
    /\ [][EndpointStep => UNCHANGED <<visited, queue, fetchLog, enqueued, results>>]_vars
    /\ [](\A u \in PagesPastEndpoints :
            IssuedFor(u) = extractDynamicApiUrls(Document(u).quoted, u))

C30_Witness ==
    /\ pc = "returned" /\ maxDepth = 1
    /\ Cardinality(visited) = maxPages /\ Len(fetchLog) = maxPages
    /\ Excluded(UrlApi1) /\ UrlApi1 \notin visited
    /\ \E j \in 1..Len(apiLog) : \E k \in 1..Len(apiLog) :
          /\ apiLog[j].url = UrlApi1 /\ apiLog[k].url = UrlApi1
          /\ apiLog[j].page # apiLog[k].page
          /\ \E i \in 1..Len(fetchLog) :
                fetchLog[i].url = apiLog[k].page /\ fetchLog[i].depth = maxDepth

====
